---- MODULE Spec2Model ----
(***************************************************************************)
(* Minimum spanning trees (Kruskal, Prim, Boruvka, Reverse-Delete), the    *)
(* DSU they use, and Karger's contraction, as implemented in kruskal.py,   *)
(* prim.py, boruvka.py, reverse.py and karger.py.                          *)
(*                                                                         *)
(* A graph is what load_graph builds from a square matrix: nodes 0..n-1    *)
(* and, for u < v, an edge (u, v) of weight W[<<u, v>>] when that entry is *)
(* not 0.  networkx enumerates the edges of such a graph in lexicographic  *)
(* order of (u, v) with u < v, and the neighbours of a node in ascending   *)
(* order.                                                                  *)
(***************************************************************************)
EXTENDS Integers, Sequences, FiniteSets, TLC

\* ------------------------------------------------------------------ bounds
MaxNodes == 4
MaxEdges == 4
MaxWeight == 3

\* ----------------------------------------------------------------- helpers
None == <<>>

Nodes(n) == 0 .. (n - 1)

AllPairs(n) == {p \in Nodes(n) \X Nodes(n) : p[1] < p[2]}

\* the weight matrices of the graphs on nn nodes with at most MaxEdges edges
Graphs(nn) ==
    UNION {{[p \in AllPairs(nn) |-> IF p \in E THEN wt[p] ELSE 0] :
               wt \in [E -> 1 .. MaxWeight]} :
           E \in {S \in SUBSET AllPairs(nn) : Cardinality(S) <= MaxEdges}}

EdgePairs(n, W) == {p \in AllPairs(n) : W[p] # 0}

PairLess(p, q) == p[1] < q[1] \/ (p[1] = q[1] /\ p[2] < q[2])

RECURSIVE PairsInOrder(_)
PairsInOrder(S) ==
    IF S = {} THEN <<>>
    ELSE LET m == CHOOSE p \in S : \A q \in S \ {p} : PairLess(p, q)
         IN  <<m>> \o PairsInOrder(S \ {m})

\* G.edges(data=True): the edges as (u, v, weight), in enumeration order
G_edges(n, W) ==
    LET ps == PairsInOrder(EdgePairs(n, W))
    IN  [i \in 1 .. Len(ps) |-> <<ps[i][1], ps[i][2], W[ps[i]]>>]

\* G[v]: the neighbours of v, in ascending order
Neighbours(n, W, v) ==
    {u \in Nodes(n) : u # v /\ W[IF u < v THEN <<u, v>> ELSE <<v, u>>] # 0}

WeightOf(W, u, v) == W[IF u < v THEN <<u, v>> ELSE <<v, u>>]

RemoveAt(s, i) == SubSeq(s, 1, i - 1) \o SubSeq(s, i + 1, Len(s))

\* list.sort / sorted with a key: stable, ascending in the key.  The two keys
\* of the sources are weight (sign 1) and -weight (sign -1).
\* a sort that is not stable: among equal keys the last one comes first
RECURSIVE UnstableSortBy(_, _)
UnstableSortBy(s, sign) ==
    IF s = <<>> THEN <<>>
    ELSE LET i == CHOOSE j \in 1 .. Len(s) :
                     /\ \A k \in 1 .. Len(s) : sign * s[j][3] <= sign * s[k][3]
                     /\ \A k \in (j + 1) .. Len(s) : s[k][3] # s[j][3]
         IN  <<s[i]>> \o UnstableSortBy(RemoveAt(s, i), sign)

RECURSIVE StableSortBy(_, _)
StableSortBy(s, sign) ==
    IF s = <<>> THEN <<>>
    ELSE LET i == CHOOSE j \in 1 .. Len(s) :
                     /\ \A k \in 1 .. Len(s) : sign * s[j][3] <= sign * s[k][3]
                     /\ \A k \in 1 .. (j - 1) : s[k][3] # s[j][3]
         IN  <<s[i]>> \o StableSortBy(RemoveAt(s, i), sign)

\* the nodes reachable from the nodes of seen over the edge pairs E
RECURSIVE Reach(_, _)
Reach(E, seen) ==
    LET next == seen \cup {p[2] : p \in {q \in E : q[1] \in seen}}
                     \cup {p[1] : p \in {q \in E : q[2] \in seen}}
    IN  IF next = seen THEN seen ELSE Reach(E, next)

\* nx.is_connected: one traversal from a node, all n nodes reached
is_connected(n, E) == Cardinality(Reach(E, {0})) = n

\* ---------------------------------------------------------------------- DSU
DSU(n) == [parent |-> [x \in Nodes(n) |-> x], rank |-> [x \in Nodes(n) |-> 0]]

\* find that hands back parent[x] without climbing to the root
find_one_step(p, x) == [parent |-> p, ret |-> p[x]]

\* find that compresses the path but returns the parent x had before
RECURSIVE find_stale_return(_, _)
find_stale_return(p, x) ==
    IF p[x] # x
    THEN LET r == find_stale_return(p, p[x])
             top == IF r.parent[p[x]] = p[x] THEN p[x] ELSE r.parent[p[x]]
         IN  [parent |-> [r.parent EXCEPT ![x] = top], ret |-> p[x]]
    ELSE [parent |-> p, ret |-> x]

RECURSIVE find(_, _)
find(p, x) ==
    IF p[x] # x
    THEN LET r == find(p, p[x])
         IN  [parent |-> [r.parent EXCEPT ![x] = r.ret], ret |-> r.ret]
    ELSE [parent |-> p, ret |-> x]

\* union without the "if rootX != rootY" test
union_unguarded(d, x, y) ==
    LET fx == find(d.parent, x)
        fy == find(fx.parent, y)
        rootX == fx.ret
        rootY == fy.ret
        p == fy.parent
    IN  IF d.rank[rootX] > d.rank[rootY]
        THEN [parent |-> [p EXCEPT ![rootY] = rootX], rank |-> d.rank, ret |-> TRUE]
        ELSE IF d.rank[rootX] < d.rank[rootY]
        THEN [parent |-> [p EXCEPT ![rootX] = rootY], rank |-> d.rank, ret |-> TRUE]
        ELSE [parent |-> [p EXCEPT ![rootY] = rootX],
              rank |-> [d.rank EXCEPT ![rootX] = d.rank[rootX] + 1],
              ret |-> TRUE]

\* union that tests "x != y" where the source tests "rootX != rootY"
union_compares_nodes(d, x, y) ==
    LET fx == find(d.parent, x)
        fy == find(fx.parent, y)
        rootX == fx.ret
        rootY == fy.ret
        p == fy.parent
    IN  IF x # y
        THEN IF d.rank[rootX] > d.rank[rootY]
             THEN [parent |-> [p EXCEPT ![rootY] = rootX], rank |-> d.rank, ret |-> TRUE]
             ELSE IF d.rank[rootX] < d.rank[rootY]
             THEN [parent |-> [p EXCEPT ![rootX] = rootY], rank |-> d.rank, ret |-> TRUE]
             ELSE [parent |-> [p EXCEPT ![rootY] = rootX],
                   rank |-> [d.rank EXCEPT ![rootX] = d.rank[rootX] + 1],
                   ret |-> TRUE]
        ELSE [parent |-> p, rank |-> d.rank, ret |-> FALSE]

union(d, x, y) ==
    LET fx == find(d.parent, x)
        fy == find(fx.parent, y)
        rootX == fx.ret
        rootY == fy.ret
        p == fy.parent
    IN  IF rootX # rootY
        THEN IF d.rank[rootX] > d.rank[rootY]
             THEN [parent |-> [p EXCEPT ![rootY] = rootX], rank |-> d.rank, ret |-> TRUE]
             ELSE IF d.rank[rootX] < d.rank[rootY]
             THEN [parent |-> [p EXCEPT ![rootX] = rootY], rank |-> d.rank, ret |-> TRUE]
             ELSE [parent |-> [p EXCEPT ![rootY] = rootX],
                   rank |-> [d.rank EXCEPT ![rootX] = d.rank[rootX] + 1],
                   ret |-> TRUE]
        ELSE [parent |-> p, rank |-> d.rank, ret |-> FALSE]

\* ------------------------------------------------------------------- state
VARIABLES
    n,          \* number of nodes of the loaded graph G
    W,          \* weight matrix of G: W[<<u, v>>] for u < v, 0 when no edge
    pc,         \* the function that is running
    kruskal,    \* locals of kruskal_mst: edges, i (scan position), dsu, mst, total_weight
    prim,       \* locals of prim_mst: visited, mst, total_weight, edges (heap), seen_edges,
                \* and pushed, the log of every heappush of the run
    reverse,    \* locals of reverse_delete_mst: graph, edges, i, mst_edges, total_weight
    boruvka,    \* locals of boruvka_mst: num_components, component, cheapest, mst, total_weight
    ret,        \* what each MST function handed back to its caller
    karger,     \* locals of karger_min_cut: G (nodes, weights), contraction_steps, result
    nx_version, \* which contracted_nodes the installed networkx provides
    dsu,        \* a DSU object driven directly by union and find calls
    call        \* the last call made on dsu, with the value it returned

vars == <<n, W, pc, kruskal, prim, reverse, boruvka, ret, karger, nx_version, dsu, call>>

Pending == [outcome |-> "pending", mst |-> <<>>, total_weight |-> 0]

Returned(m, t) == [outcome |-> "returned", mst |-> m, total_weight |-> t]

\* ------------------------------------------------------------------ Kruskal
kruskal_init(nn, w) ==
    [edges |-> StableSortBy(G_edges(nn, w), 1),
     i |-> 1,
     dsu |-> DSU(nn),
     mst |-> <<>>,
     total_weight |-> 0]

\* one iteration of "for u, v, weight in edges"
kruskal_scan(k) ==
    LET e == k.edges[k.i]
        r == union(k.dsu, e[1], e[2])
    IN  [edges |-> k.edges,
         i |-> k.i + 1,
         dsu |-> [parent |-> r.parent, rank |-> r.rank],
         mst |-> IF r.ret THEN Append(k.mst, e) ELSE k.mst,
         total_weight |-> IF r.ret THEN k.total_weight + e[3] ELSE k.total_weight]

KruskalScan ==
    /\ pc = "kruskal"
    /\ kruskal.i <= Len(kruskal.edges)
    /\ kruskal' = kruskal_scan(kruskal)
    /\ UNCHANGED <<n, W, pc, prim, reverse, boruvka, ret, karger, nx_version, dsu, call>>

KruskalReturn ==
    /\ pc = "kruskal"
    /\ kruskal.i > Len(kruskal.edges)
    /\ ret' = [ret EXCEPT !.kruskal = Returned(kruskal.mst, kruskal.total_weight)]
    /\ pc' = "prim"
    /\ UNCHANGED <<n, W, kruskal, prim, reverse, boruvka, karger, nx_version, dsu, call>>

\* --------------------------------------------------------------------- Prim
RECURSIVE AscendingSeq(_)
AscendingSeq(S) ==
    IF S = {} THEN <<>>
    ELSE LET m == CHOOSE x \in S : \A y \in S : x <= y
         IN  <<m>> \o AscendingSeq(S \ {m})

SortedPair(a, b) == IF a < b THEN <<a, b>> ELSE <<b, a>>

\* the push loop without "if u not in visited" and "if edge not in seen_edges"
RECURSIVE prim_push_all(_, _, _, _)
prim_push_all(p, w, v, nbrs) ==
    IF nbrs = <<>> THEN p
    ELSE LET u == Head(nbrs)
             edge == SortedPair(v, u)
         IN  prim_push_all([p EXCEPT !.seen_edges = @ \cup {edge},
                                     !.edges = Append(@, <<WeightOf(w, v, u), v, u>>),
                                     !.pushed = Append(@, <<WeightOf(w, v, u), v, u>>)],
                           w, v, Tail(nbrs))

\* "for u, edge_data in G[v].items()": push the edges of v that lead to an
\* unvisited node and were not pushed before
RECURSIVE prim_push(_, _, _, _)
prim_push(p, w, v, nbrs) ==
    IF nbrs = <<>> THEN p
    ELSE LET u == Head(nbrs)
             edge == SortedPair(v, u)
         IN  IF u \notin p.visited /\ edge \notin p.seen_edges
             THEN prim_push([p EXCEPT !.seen_edges = @ \cup {edge},
                                      !.edges = Append(@, <<WeightOf(w, v, u), v, u>>),
                                      !.pushed = Append(@, <<WeightOf(w, v, u), v, u>>)],
                            w, v, Tail(nbrs))
             ELSE prim_push(p, w, v, Tail(nbrs))

prim_init(nn, w) ==
    prim_push([visited |-> {0}, mst |-> <<>>, total_weight |-> 0,
               edges |-> <<>>, seen_edges |-> {}, pushed |-> <<>>],
              w, 0, AscendingSeq(Neighbours(nn, w, 0)))

TupleLess(a, b) ==
    \/ a[1] < b[1]
    \/ a[1] = b[1] /\ a[2] < b[2]
    \/ a[1] = b[1] /\ a[2] = b[2] /\ a[3] < b[3]

\* edges.pop(0) in place of heapq.heappop: the oldest entry, not the smallest
heappop_oldest(h) == 1

\* heapq.heappop: the position of the smallest (weight, u, v) of the heap
heappop(h) ==
    CHOOSE i \in 1 .. Len(h) :
        /\ \A j \in 1 .. Len(h) : ~TupleLess(h[j], h[i])
        /\ \A j \in 1 .. (i - 1) : h[j] # h[i]

\* the iteration without "if v in visited: continue"
prim_iterate_keeps_stale(p, nn, w) ==
    LET i == heappop(p.edges)
        weight == p.edges[i][1]
        u == p.edges[i][2]
        v == p.edges[i][3]
        popped == [p EXCEPT !.edges = RemoveAt(@, i)]
    IN  prim_push([popped EXCEPT !.visited = @ \cup {v},
                                 !.mst = Append(@, <<u, v, weight>>),
                                 !.total_weight = @ + weight],
                  w, v, AscendingSeq(Neighbours(nn, w, v)))

\* one iteration of "while edges and len(visited) < G.number_of_nodes()"
prim_iterate(p, nn, w) ==
    LET i == heappop(p.edges)
        weight == p.edges[i][1]
        u == p.edges[i][2]
        v == p.edges[i][3]
        popped == [p EXCEPT !.edges = RemoveAt(@, i)]
    IN  IF v \in p.visited THEN popped
        ELSE prim_push([popped EXCEPT !.visited = @ \cup {v},
                                      !.mst = Append(@, <<u, v, weight>>),
                                      !.total_weight = @ + weight],
                       w, v, AscendingSeq(Neighbours(nn, w, v)))

PrimContinues == prim.edges # <<>> /\ Cardinality(prim.visited) < n

PrimIterate ==
    /\ pc = "prim"
    /\ PrimContinues
    /\ prim' = prim_iterate(prim, n, W)
    /\ UNCHANGED <<n, W, pc, kruskal, reverse, boruvka, ret, karger, nx_version, dsu, call>>

PrimReturn ==
    /\ pc = "prim"
    /\ ~PrimContinues
    /\ ret' = [ret EXCEPT !.prim = Returned(prim.mst, prim.total_weight)]
    /\ pc' = "reverse"
    /\ UNCHANGED <<n, W, kruskal, prim, reverse, boruvka, karger, nx_version, dsu, call>>

\* ----------------------------------------------------------- Reverse-Delete
reverse_init(nn, w) ==
    [graph |-> EdgePairs(nn, w),
     edges |-> StableSortBy(G_edges(nn, w), -1),
     i |-> 1,
     mst_edges |-> <<>>,
     total_weight |-> 0]

\* the iteration with nx.is_connected called before graph.remove_edge
reverse_step_checks_first(r, nn) ==
    LET e == r.edges[r.i]
        removed == r.graph \ {<<e[1], e[2]>>}
    IN  IF ~is_connected(nn, r.graph)
        THEN [r EXCEPT !.i = @ + 1,
                       !.graph = removed \cup {<<e[1], e[2]>>},
                       !.mst_edges = Append(@, e),
                       !.total_weight = @ + e[3]]
        ELSE [r EXCEPT !.i = @ + 1, !.graph = removed]

\* one iteration of "for u, v, weight in edges": remove the edge, and put it
\* back and accept it when the graph without it is not connected
reverse_step(r, nn) ==
    LET e == r.edges[r.i]
        removed == r.graph \ {<<e[1], e[2]>>}
    IN  IF ~is_connected(nn, removed)
        THEN [r EXCEPT !.i = @ + 1,
                       !.graph = removed \cup {<<e[1], e[2]>>},
                       !.mst_edges = Append(@, e),
                       !.total_weight = @ + e[3]]
        ELSE [r EXCEPT !.i = @ + 1, !.graph = removed]

ReverseStep ==
    /\ pc = "reverse"
    /\ reverse.i <= Len(reverse.edges)
    /\ reverse' = reverse_step(reverse, n)
    /\ UNCHANGED <<n, W, pc, kruskal, prim, boruvka, ret, karger, nx_version, dsu, call>>

ReverseReturn ==
    /\ pc = "reverse"
    /\ reverse.i > Len(reverse.edges)
    /\ ret' = [ret EXCEPT !.reverse = Returned(reverse.mst_edges, reverse.total_weight)]
    /\ pc' = "boruvka"
    /\ UNCHANGED <<n, W, kruskal, prim, reverse, boruvka, karger, nx_version, dsu, call>>

\* ------------------------------------------------------------------ Boruvka
NoCheapest(nn) == [c \in Nodes(nn) |-> None]

boruvka_init(nn) ==
    [num_components |-> nn,
     component |-> [x \in Nodes(nn) |-> x],
     cheapest |-> NoCheapest(nn),
     mst |-> <<>>,
     total_weight |-> 0]

\* the scan with the test and update for comp_v left out
RECURSIVE boruvka_cheapest_one_sided(_, _, _)
boruvka_cheapest_one_sided(cheap, component, es) ==
    IF es = <<>> THEN cheap
    ELSE LET e == Head(es)
             comp_u == component[e[1]]
             comp_v == component[e[2]]
             c1 == IF cheap[comp_u] = None \/ cheap[comp_u][3] > e[3]
                   THEN [cheap EXCEPT ![comp_u] = e] ELSE cheap
         IN  IF comp_u # comp_v
             THEN boruvka_cheapest_one_sided(c1, component, Tail(es))
             ELSE boruvka_cheapest_one_sided(cheap, component, Tail(es))

\* "for u, v, weight in G.edges(data=True)": the cheapest edge leaving each
\* component, the first seen among equal weights
RECURSIVE boruvka_cheapest(_, _, _)
boruvka_cheapest(cheap, component, es) ==
    IF es = <<>> THEN cheap
    ELSE LET e == Head(es)
             comp_u == component[e[1]]
             comp_v == component[e[2]]
             c1 == IF cheap[comp_u] = None \/ cheap[comp_u][3] > e[3]
                   THEN [cheap EXCEPT ![comp_u] = e] ELSE cheap
             c2 == IF c1[comp_v] = None \/ c1[comp_v][3] > e[3]
                   THEN [c1 EXCEPT ![comp_v] = e] ELSE c1
         IN  IF comp_u # comp_v
             THEN boruvka_cheapest(c2, component, Tail(es))
             ELSE boruvka_cheapest(cheap, component, Tail(es))

\* the merge loop without "if component[u] != component[v]"
RECURSIVE boruvka_merge_unchecked(_, _)
boruvka_merge_unchecked(b, comps) ==
    IF comps = <<>> THEN b
    ELSE LET edge == b.cheapest[Head(comps)]
         IN  IF edge # None
             THEN LET old_component == b.component[edge[1]]
                      new_component == b.component[edge[2]]
                  IN  boruvka_merge_unchecked(
                          [b EXCEPT !.mst = Append(@, edge),
                                    !.total_weight = @ + edge[3],
                                    !.component =
                                        [x \in DOMAIN @ |->
                                            IF @[x] = old_component
                                            THEN new_component ELSE @[x]],
                                    !.num_components = @ - 1],
                          Tail(comps))
             ELSE boruvka_merge_unchecked(b, Tail(comps))

\* "for comp, edge in cheapest.items()": accept the cheapest edges whose ends
\* are still in different components and relabel the merged component
RECURSIVE boruvka_merge(_, _)
boruvka_merge(b, comps) ==
    IF comps = <<>> THEN b
    ELSE LET edge == b.cheapest[Head(comps)]
         IN  IF edge # None /\ b.component[edge[1]] # b.component[edge[2]]
             THEN LET old_component == b.component[edge[1]]
                      new_component == b.component[edge[2]]
                  IN  boruvka_merge(
                          [b EXCEPT !.mst = Append(@, edge),
                                    !.total_weight = @ + edge[3],
                                    !.component =
                                        [x \in DOMAIN @ |->
                                            IF @[x] = old_component
                                            THEN new_component ELSE @[x]],
                                    !.num_components = @ - 1],
                          Tail(comps))
             ELSE boruvka_merge(b, Tail(comps))

\* first half of a round of "while num_components > 1"
BoruvkaScan ==
    /\ pc = "boruvka"
    /\ boruvka.num_components > 1
    /\ boruvka' = [boruvka EXCEPT !.cheapest =
                       boruvka_cheapest(NoCheapest(n), boruvka.component, G_edges(n, W))]
    /\ pc' = "boruvka_merge"
    /\ UNCHANGED <<n, W, kruskal, prim, reverse, ret, karger, nx_version, dsu, call>>

\* second half of the round, back to the loop test
BoruvkaMerge ==
    /\ pc = "boruvka_merge"
    /\ boruvka' = [boruvka_merge(boruvka, AscendingSeq(Nodes(n)))
                       EXCEPT !.cheapest = NoCheapest(n)]
    /\ pc' = "boruvka"
    /\ UNCHANGED <<n, W, kruskal, prim, reverse, ret, karger, nx_version, dsu, call>>

BoruvkaReturn ==
    /\ pc = "boruvka"
    /\ boruvka.num_components <= 1
    /\ ret' = [ret EXCEPT !.boruvka = Returned(boruvka.mst, boruvka.total_weight)]
    /\ pc' = "done"
    /\ UNCHANGED <<n, W, kruskal, prim, reverse, boruvka, karger, nx_version, dsu, call>>

\* ------------------------------------------------------------------- Karger
\* G is an nx.Graph (from_numpy_array): at most one edge, with one weight, per
\* pair of nodes.  merged[x] is the set of original nodes contracted into x.
karger_init(nn, w) ==
    [nodes |-> Nodes(nn),
     weight |-> w,
     merged |-> [x \in Nodes(nn) |-> {x}],
     contraction_steps |-> <<>>,
     outcome |-> "running",
     min_cut_edges |-> {},
     min_cut_weight |-> 0]

\* list(G.edges(data=True)), as a set: the order of the list is not modelled
karger_edges(nodes, weight) ==
    {<<p[1], p[2], weight[p]>> :
        p \in {q \in DOMAIN weight : q[1] \in nodes /\ q[2] \in nodes /\ weight[q] # 0}}

\* a contraction that removes v and does not move its edges to u
contracted_nodes_drops_edges(version, nodes, weight, u, v) ==
    [p \in DOMAIN weight |-> IF p[1] = v \/ p[2] = v THEN 0 ELSE weight[p]]

\* nx.contracted_nodes(G, u, v, self_loops=False) on an nx.Graph: v is removed
\* and each edge (v, x), x # u, becomes (u, x).  When (u, x) already exists,
\* a networkx whose contracted_nodes calls add_edges_from overwrites its
\* weight with that of (v, x); one that stores the edge of v under the
\* "contraction" attribute keeps the weight of (u, x).
contracted_nodes(version, nodes, weight, u, v) ==
    [p \in DOMAIN weight |->
        IF p[1] = v \/ p[2] = v THEN 0
        ELSE IF p[1] # u /\ p[2] # u THEN weight[p]
        ELSE LET x == IF p[1] = u THEN p[2] ELSE p[1]
                 from_v == IF x \in nodes THEN weight[SortedPair(v, x)] ELSE 0
             IN  IF from_v = 0 THEN weight[p]
                 ELSE IF weight[p] = 0 THEN from_v
                 ELSE IF version = "add_edges_from" THEN from_v
                 ELSE weight[p]]

RECURSIVE SumSet(_)
SumSet(es) ==
    IF es = {} THEN 0
    ELSE LET e == CHOOSE x \in es : TRUE IN e[3] + SumSet(es \ {e})

\* one iteration of "while len(G.nodes) > 2" with random.choice returning e
karger_contract(k, version, e) ==
    LET u == e[1]
        v == e[2]
        w2 == contracted_nodes(version, k.nodes, k.weight, u, v)
        nodes2 == k.nodes \ {v}
    IN  [k EXCEPT !.nodes = nodes2,
                  !.weight = w2,
                  !.merged = [@ EXCEPT ![u] = @ \cup k.merged[v], ![v] = {}],
                  !.contraction_steps = Append(@, karger_edges(nodes2, w2))]

KargerContract ==
    /\ pc = "karger"
    /\ karger.outcome = "running"
    /\ Cardinality(karger.nodes) > 2
    /\ \E e \in karger_edges(karger.nodes, karger.weight) :
           karger' = karger_contract(karger, nx_version, e)
    /\ UNCHANGED <<n, W, pc, kruskal, prim, reverse, boruvka, ret, nx_version, dsu, call>>

\* random.choice of an empty list raises IndexError
KargerRaise ==
    /\ pc = "karger"
    /\ karger.outcome = "running"
    /\ Cardinality(karger.nodes) > 2
    /\ karger_edges(karger.nodes, karger.weight) = {}
    /\ karger' = [karger EXCEPT !.outcome = "IndexError"]
    /\ UNCHANGED <<n, W, pc, kruskal, prim, reverse, boruvka, ret, nx_version, dsu, call>>

KargerReturn ==
    /\ pc = "karger"
    /\ karger.outcome = "running"
    /\ Cardinality(karger.nodes) <= 2
    /\ karger' = [karger EXCEPT
                     !.outcome = "returned",
                     !.min_cut_edges = karger_edges(karger.nodes, karger.weight),
                     !.min_cut_weight = SumSet(karger_edges(karger.nodes, karger.weight))]
    /\ UNCHANGED <<n, W, pc, kruskal, prim, reverse, boruvka, ret, nx_version, dsu, call>>

\* ---------------------------------------------------- DSU driven by calls
\* again: the call repeats the call before it (same method, same arguments)
NoCall == [op |-> "none", x |-> 0, y |-> 0, root |-> 0, joined |-> FALSE, again |-> FALSE]

\* dsu.find(x); root is the value returned
DsuFind(x) ==
    /\ pc = "dsu"
    /\ LET r == find(dsu.parent, x)
       IN  /\ dsu' = [dsu EXCEPT !.parent = r.parent]
           /\ call' = [op |-> "find", x |-> x, y |-> x, root |-> r.ret, joined |-> FALSE,
                      again |-> call.op = "find" /\ call.x = x]
    /\ UNCHANGED <<n, W, pc, kruskal, prim, reverse, boruvka, ret, karger, nx_version>>

\* dsu.union(x, y); joined is the value returned
DsuUnion(x, y) ==
    /\ pc = "dsu"
    /\ LET r == union(dsu, x, y)
       IN  /\ dsu' = [parent |-> r.parent, rank |-> r.rank]
           /\ call' = [op |-> "union", x |-> x, y |-> y, root |-> 0, joined |-> r.ret,
                      again |-> call.op = "union" /\ call.x = x /\ call.y = y]
    /\ UNCHANGED <<n, W, pc, kruskal, prim, reverse, boruvka, ret, karger, nx_version>>

\* ----------------------------------------------------------- specifications
NxVersions == {"add_edges_from", "store_contraction"}

InitLocals ==
    /\ kruskal = kruskal_init(n, W)
    /\ prim = prim_init(n, W)
    /\ reverse = reverse_init(n, W)
    /\ boruvka = boruvka_init(n)
    /\ ret = [kruskal |-> Pending, prim |-> Pending, reverse |-> Pending, boruvka |-> Pending]
    /\ karger = karger_init(n, W)
    /\ dsu = DSU(n)
    /\ call = NoCall

\* the four MST functions, one after the other, on a loaded graph
Init ==
    /\ n \in 1 .. MaxNodes
    /\ W \in Graphs(n)
    /\ pc = "kruskal"
    /\ nx_version = "store_contraction"
    /\ InitLocals

Next ==
    \/ KruskalScan
    \/ KruskalReturn
    \/ PrimIterate
    \/ PrimReturn
    \/ ReverseStep
    \/ ReverseReturn
    \/ BoruvkaScan
    \/ BoruvkaMerge
    \/ BoruvkaReturn

Spec == Init /\ [][Next]_vars

\* karger_min_cut on a loaded graph, under either networkx
InitKarger ==
    /\ n \in 1 .. MaxNodes
    /\ W \in Graphs(n)
    /\ pc = "karger"
    /\ nx_version \in NxVersions
    /\ InitLocals

NextKarger ==
    \/ KargerContract
    \/ KargerRaise
    \/ KargerReturn

SpecKarger == InitKarger /\ [][NextKarger]_vars

\* a DSU(n) under any sequence of find and union calls
InitDSU ==
    /\ n \in 1 .. MaxNodes
    /\ W = [p \in AllPairs(n) |-> 0]
    /\ pc = "dsu"
    /\ nx_version = "store_contraction"
    /\ InitLocals

NextDSU ==
    \/ \E x \in Nodes(n) : DsuFind(x)
    \/ \E x \in Nodes(n), y \in Nodes(n) : DsuUnion(x, y)

SpecDSU == InitDSU /\ [][NextDSU]_vars

\* ------------------------------------------------------ reference notions
Connected(nn, E) == Reach(E, {0}) = Nodes(nn)

GraphConnected == Connected(n, EdgePairs(n, W))

RECURSIVE PairWeightSum(_, _)
PairWeightSum(w, T) ==
    IF T = {} THEN 0
    ELSE LET p == CHOOSE q \in T : TRUE IN w[p] + PairWeightSum(w, T \ {p})

SpanningTrees(nn, w) ==
    {T \in SUBSET EdgePairs(nn, w) : Cardinality(T) = nn - 1 /\ Connected(nn, T)}

Minimum(S) == CHOOSE m \in S : \A x \in S : m <= x

MinSpanningWeight(nn, w) ==
    Minimum({PairWeightSum(w, T) : T \in SpanningTrees(nn, w)})

AllReturned == \A a \in DOMAIN ret : ret[a].outcome # "pending"

HasTiedWeights == \E p, q \in EdgePairs(n, W) : p # q /\ W[p] = W[q]

\* the total weight of the edges of the graph w with exactly one end in S
CrossingWeight(w, S) ==
    PairWeightSum(w, {p \in DOMAIN w : (p[1] \in S) # (p[2] \in S)})

\* the weight of a lightest cut of the graph into two non-empty sides
GlobalMinCut(nn, w) ==
    Minimum({CrossingWeight(w, S) : S \in (SUBSET Nodes(nn)) \ {{}, Nodes(nn)}})

\* every cut weight karger_min_cut can return from the graph (nodes, weight),
\* over all the edges random.choice can pick
RECURSIVE karger_outcomes(_, _, _)
karger_outcomes(version, nodes, weight) ==
    IF Cardinality(nodes) <= 2 THEN {SumSet(karger_edges(nodes, weight))}
    ELSE UNION {karger_outcomes(version, nodes \ {e[2]},
                                contracted_nodes(version, nodes, weight, e[1], e[2])) :
                e \in karger_edges(nodes, weight)}

\* the root of x's tree, read without changing parent
RECURSIVE Root(_, _)
Root(p, x) == IF p[x] = x THEN x ELSE Root(p, p[x])

\* the nodes on the way from x up to its root, both included
RECURSIVE PathToRoot(_, _)
PathToRoot(p, x) == IF p[x] = x THEN {x} ELSE {x} \cup PathToRoot(p, p[x])

\* the nodes in the same set as x
SetOf(p, x) == {z \in DOMAIN p : Root(p, z) = Root(p, x)}

\* the node reached from x after k steps along parent
RECURSIVE Ancestor(_, _, _)
Ancestor(p, x, k) == IF k = 0 THEN x ELSE Ancestor(p, p[x], k - 1)

\* the values of the function f
Labels(f) == {f[x] : x \in DOMAIN f}

\* the elements of the sequence s
Range(s) == {s[i] : i \in 1 .. Len(s)}

\* es lists every edge of the graph once, by weight times sign ascending,
\* equal weights in the enumeration order of G.edges
SortedEdgeList(es, nn, w, sign) ==
    /\ Len(es) = Cardinality(EdgePairs(nn, w))
    /\ Range(es) = Range(G_edges(nn, w))
    /\ \A i, j \in 1 .. Len(es) :
           i < j => \/ sign * es[i][3] < sign * es[j][3]
                    \/ /\ es[i][3] = es[j][3]
                       /\ PairLess(<<es[i][1], es[i][2]>>, <<es[j][1], es[j][2]>>)

\* the sub-sequence of es[1 .. k] of the edges whose ends were in different
\* sets of the forest made of the edges kept before them
RECURSIVE JoiningEdges(_, _)
JoiningEdges(es, k) ==
    IF k = 0 THEN <<>>
    ELSE LET before == JoiningEdges(es, k - 1)
             forest == {<<e[1], e[2]>> : e \in Range(before)}
         IN  IF es[k][2] \in Reach(forest, {es[k][1]})
             THEN before ELSE Append(before, es[k])

\* the end points of the edges of the list es
PairsOf(es) == {<<e[1], e[2]>> : e \in Range(es)}

\* the edges of the list es are distinct and contain no cycle on nn nodes:
\* each one lowers the number of connected pieces by one
Acyclic(nn, es) ==
    /\ Cardinality(PairsOf(es)) = Len(es)
    /\ Cardinality({Reach(PairsOf(es), {x}) : x \in Nodes(nn)}) = nn - Len(es)

\* the sum of the weights of the edges (u, v, weight) of the list es
RECURSIVE SeqWeightSum(_)
SeqWeightSum(es) == IF es = <<>> THEN 0 ELSE es[1][3] + SeqWeightSum(Tail(es))

\* ------------------------------------------------------------------ claims
\* C1: on a connected graph, kruskal_mst, prim_mst, boruvka_mst and
\* reverse_delete_mst return the same total weight, and it is the minimum
\* total weight over all spanning trees of the graph.
C1_SameMinimumWeight ==
    (AllReturned /\ GraphConnected) =>
        \A a \in DOMAIN ret : ret[a].total_weight = MinSpanningWeight(n, W)

\* all four have returned on a 4-node connected graph with a cycle and a tie
C1_Witness ==
    /\ AllReturned
    /\ GraphConnected
    /\ n = 4
    /\ Cardinality(EdgePairs(n, W)) = 4
    /\ HasTiedWeights
    /\ ret.kruskal.total_weight < PairWeightSum(W, EdgePairs(n, W))

\* C2: on a connected graph of n nodes, the edge list each of the four MST
\* functions returns has exactly n-1 edges.
C2_ExactlyNMinus1Edges ==
    (AllReturned /\ GraphConnected) =>
        \A a \in DOMAIN ret : Len(ret[a].mst) = n - 1

\* all four have returned 3 edges of a connected 4-node graph with 4 edges
C2_Witness ==
    /\ AllReturned
    /\ GraphConnected
    /\ n = 4
    /\ Cardinality(EdgePairs(n, W)) = 4
    /\ \A a \in DOMAIN ret : Len(ret[a].mst) = 3

\* C3: on a disconnected graph boruvka_mst detects a round in which the
\* component count does not decrease and ends with a disconnected-graph
\* error: every round that leaves num_components as it was hands the caller
\* a DisconnectedGraph outcome.
C3_NoProgressRoundIsReported ==
    [][(pc = "boruvka_merge" /\ boruvka'.num_components = boruvka.num_components)
           => ret'.boruvka.outcome = "DisconnectedGraph"]_vars

\* C4: on a graph that is disconnected before any edge is removed,
\* reverse_delete_mst reports a connectivity error and returns no edge list.
C4_ReverseReportsDisconnected ==
    (ret.reverse.outcome # "pending" /\ ~GraphConnected) =>
        ret.reverse.outcome = "ConnectivityError"

\* C5: on a disconnected graph the outcome of kruskal_mst is a distinct
\* DisconnectedGraph outcome, not the spanning forest returned as the MST.
C5_KruskalReportsDisconnected ==
    (ret.kruskal.outcome # "pending" /\ ~GraphConnected) =>
        ret.kruskal.outcome = "DisconnectedGraph"

\* C6: when node 0's component does not contain all nodes, prim_mst ends its
\* loop with fewer than n visited nodes and reports the partial tree
\* distinctly from a complete spanning tree.
C6_PrimReportsPartialTree ==
    (ret.prim.outcome # "pending" /\ ~GraphConnected) =>
        /\ Cardinality(prim.visited) < n
        /\ ret.prim.outcome = "DisconnectedGraph"

\* C7: contraction keeps the parallel edges to other nodes, so the returned
\* min_cut_weight is the total weight of the original edges that cross the
\* final partition into two supernodes.
C7_CutWeightIsCrossingWeight ==
    (karger.outcome = "returned" /\ Cardinality(karger.nodes) = 2) =>
        \A a \in karger.nodes :
            karger.min_cut_weight = CrossingWeight(W, karger.merged[a])

\* C8: on a connected graph with positive weights, the cut weight a run of
\* karger_min_cut returns is at least the weight of a global minimum cut.
C8_CutAtLeastGlobalMinimum ==
    (karger.outcome = "returned" /\ GraphConnected /\ n >= 2) =>
        karger.min_cut_weight >= GlobalMinCut(n, W)

\* C9: on a connected graph with positive weights, the least cut weight over
\* all sequences of edge choices is the weight of a global minimum cut (3 on
\* the triangle (0,1,1), (1,2,2), (0,2,3)).
C9_BestRunIsGlobalMinimum ==
    (karger.contraction_steps = <<>> /\ GraphConnected /\ n >= 2) =>
        Minimum(karger_outcomes(nx_version, Nodes(n), W)) = GlobalMinCut(n, W)

\* C10 (as claimed): in any reachable DSU state, union(x, x) returns False and
\* leaves every entry of parent and of rank unchanged.
C10_SelfUnionChangesNoState ==
    [][(call'.op = "union" /\ call'.x = call'.y)
           => (call'.joined = FALSE /\ dsu' = dsu)]_vars

\* C10 (amended): in any reachable DSU state, union(x, x) returns False and
\* leaves rank and every node's representative unchanged; the only entries
\* of parent that change belong to nodes on the path from x to its root, and
\* they become that root.
C10_SelfUnionOnlyCompresses ==
    [][(call'.op = "union" /\ call'.x = call'.y)
           => /\ call'.joined = FALSE
              /\ dsu'.rank = dsu.rank
              /\ \A z \in Nodes(n) : Root(dsu'.parent, z) = Root(dsu.parent, z)
              /\ \A z \in Nodes(n) :
                     dsu'.parent[z] # dsu.parent[z] =>
                         /\ z \in PathToRoot(dsu.parent, call'.x)
                         /\ dsu'.parent[z] = Root(dsu.parent, call'.x)]_vars

\* union(x, x) has returned False for a non-root x of a tree of rank 2
C10_Witness ==
    /\ call.op = "union"
    /\ call.x = call.y
    /\ call.joined = FALSE
    /\ dsu.parent[call.x] # call.x
    /\ dsu.rank[dsu.parent[call.x]] = 2

\* C11: in any reachable DSU state, union(x, y) returns True exactly when x
\* and y were in different sets; after True their two sets are one set and
\* every other set is as before, after False the partition is as before.
C11_UnionMergesExactlyTwoSets ==
    [][call'.op = "union" =>
          LET X == SetOf(dsu.parent, call'.x)
              Y == SetOf(dsu.parent, call'.y)
          IN  /\ call'.joined = (X # Y)
              /\ \A z \in Nodes(n) :
                     SetOf(dsu'.parent, z) =
                         IF call'.joined /\ z \in X \cup Y
                         THEN X \cup Y
                         ELSE SetOf(dsu.parent, z)]_vars

\* union has returned True and made a set of three nodes, of four
C11_Witness ==
    /\ call.op = "union"
    /\ call.joined
    /\ n = 4
    /\ Cardinality(SetOf(dsu.parent, call.x)) = 3
    /\ call.y \in SetOf(dsu.parent, call.x)

\* C12: in any reachable DSU state, find(x) terminates (the root is at most
\* n-1 steps above x) and returns a node that is its own parent, and its
\* path compression leaves every node in the set it was in.
C12_FindReturnsRootKeepsPartition ==
    [][call'.op = "find" =>
          /\ dsu.parent[Ancestor(dsu.parent, call'.x, n - 1)]
                 = Ancestor(dsu.parent, call'.x, n - 1)
          /\ dsu'.parent[call'.root] = call'.root
          /\ \A z \in Nodes(n) : SetOf(dsu'.parent, z) = SetOf(dsu.parent, z)]_vars

\* find(x) has returned a root other than x in a tree of rank 2 whose four
\* nodes all point at the root
C12_Witness ==
    /\ call.op = "find"
    /\ call.root # call.x
    /\ n = 4
    /\ dsu.rank[call.root] = 2
    /\ \A z \in Nodes(n) : dsu.parent[z] = call.root

\* C13: in any reachable DSU state, find(x) called twice in a row returns the
\* same representative both times.
C13_FindTwiceSameRoot ==
    [][(call'.op = "find" /\ call'.again) => call'.root = call.root]_vars

\* find(x) has been called a second time in a row on a node that is not a root
C13_Witness ==
    /\ call.op = "find"
    /\ call.again
    /\ call.root # call.x
    /\ dsu.rank[call.root] = 2

\* C14: kruskal_mst scans every edge once, in ascending weight order with
\* ties in the enumeration order of the graph, and accepts an edge iff
\* DSU.union on its ends reports a merge; the list it returns is in
\* non-decreasing weight order and is the sub-sequence of the sorted edges
\* whose ends were in different sets when scanned.
C14_KruskalScanOrder ==
    /\ [](/\ SortedEdgeList(kruskal.edges, n, W, 1)
          /\ kruskal.i \in 1 .. (Len(kruskal.edges) + 1)
          /\ kruskal.mst = JoiningEdges(kruskal.edges, kruskal.i - 1)
          /\ (ret.kruskal.outcome = "returned" =>
                 /\ kruskal.i = Len(kruskal.edges) + 1
                 /\ ret.kruskal.mst = kruskal.mst
                 /\ \A i, j \in 1 .. Len(ret.kruskal.mst) :
                        i < j => ret.kruskal.mst[i][3] <= ret.kruskal.mst[j][3]))
    /\ [][kruskal' # kruskal =>
             /\ kruskal'.i = kruskal.i + 1
             /\ kruskal'.edges = kruskal.edges
             /\ LET e == kruskal.edges[kruskal.i]
                    joined == Root(kruskal.dsu.parent, e[1]) # Root(kruskal.dsu.parent, e[2])
                IN  kruskal'.mst = IF joined THEN Append(kruskal.mst, e) ELSE kruskal.mst]_vars

\* kruskal_mst has returned after rejecting an edge of a 4-node graph with
\* tied weights
C14_Witness ==
    /\ ret.kruskal.outcome = "returned"
    /\ n = 4
    /\ HasTiedWeights
    /\ Len(ret.kruskal.mst) = 3
    /\ Len(kruskal.edges) = 4

\* C15: on a connected graph a round of boruvka_mst that starts with k > 1
\* components ends with at most floor(k/2), so the rounds end; and
\* num_components is always the number of distinct labels of the component
\* map.
C15_RoundHalvesComponents ==
    /\ [](boruvka.num_components = Cardinality(Labels(boruvka.component)))
    /\ [][(pc = "boruvka_merge" /\ GraphConnected) =>
             /\ boruvka.num_components > 1
             /\ boruvka'.num_components <= boruvka.num_components \div 2
             /\ boruvka'.num_components >= 1]_vars

\* a round has brought a connected 4-node graph from 4 components to 2
C15_Witness ==
    /\ pc = "boruvka"
    /\ GraphConnected
    /\ n = 4
    /\ boruvka.num_components = 2
    /\ Len(boruvka.mst) = 2

\* C16: boruvka_mst never accepts an edge whose ends carry the same component
\* label when it is accepted, so on any graph, tied weights included, the
\* accepted edges contain no cycle (and two nodes carry the same label exactly
\* when accepted edges connect them).
C16_BoruvkaAcceptsNoCycle ==
    /\ Acyclic(n, boruvka.mst)
    /\ \A x, y \in Nodes(n) :
           (boruvka.component[x] = boruvka.component[y])
               <=> (y \in Reach(PairsOf(boruvka.mst), {x}))

\* a round on a 4-node cycle of equal weights is over: two components were
\* offered the same edge, or an edge between components merged earlier in
\* the round
C16_Witness ==
    /\ pc = "boruvka"
    /\ n = 4
    /\ Cardinality(EdgePairs(n, W)) = 4
    /\ \A p \in EdgePairs(n, W) : W[p] = 1
    /\ \A x \in Nodes(n) : Cardinality(Neighbours(n, W, x)) = 2
    /\ boruvka.mst # <<>>

\* C17: on a connected input, reverse_delete_mst processes every edge once,
\* in descending weight order with ties in the enumeration order of the
\* graph; an edge is accepted and put back iff the working graph without it
\* is not connected, so the working graph is connected after each iteration;
\* the input graph G is not modified.
C17_ReverseDeleteKeepsConnected ==
    /\ [](GraphConnected =>
             /\ SortedEdgeList(reverse.edges, n, W, -1)
             /\ reverse.i \in 1 .. (Len(reverse.edges) + 1)
             /\ Connected(n, reverse.graph)
             /\ reverse.graph =
                    EdgePairs(n, W) \ (PairsOf(SubSeq(reverse.edges, 1, reverse.i - 1))
                                          \ PairsOf(reverse.mst_edges))
             /\ (ret.reverse.outcome = "returned" =>
                    reverse.i = Len(reverse.edges) + 1))
    /\ [][(GraphConnected /\ reverse' # reverse) =>
             /\ reverse'.i = reverse.i + 1
             /\ reverse'.edges = reverse.edges
             /\ LET e == reverse.edges[reverse.i]
                    without == reverse.graph \ {<<e[1], e[2]>>}
                IN  IF Connected(n, without)
                    THEN /\ reverse'.mst_edges = reverse.mst_edges
                         /\ reverse'.graph = without
                    ELSE /\ reverse'.mst_edges = Append(reverse.mst_edges, e)
                         /\ reverse'.graph = reverse.graph]_vars
    /\ [][W' = W /\ n' = n]_vars

\* on a connected 4-node graph with 4 edges and a tie, one edge has been left
\* out and the three others put back
C17_Witness ==
    /\ ret.reverse.outcome = "returned"
    /\ GraphConnected
    /\ n = 4
    /\ HasTiedWeights
    /\ Cardinality(EdgePairs(n, W)) = 4
    /\ Cardinality(reverse.graph) = 3
    /\ Len(reverse.mst_edges) = 3

\* C18: in prim_mst no undirected edge is pushed onto the priority queue more
\* than once during a run, so the queue never holds more entries than the
\* graph has edges.
C18_PrimPushesEachEdgeOnce ==
    /\ Cardinality({SortedPair(t[2], t[3]) : t \in Range(prim.pushed)}) = Len(prim.pushed)
    /\ {SortedPair(t[2], t[3]) : t \in Range(prim.pushed)} = prim.seen_edges
    /\ prim.seen_edges \subseteq EdgePairs(n, W)
    /\ Len(prim.edges) <= Cardinality(EdgePairs(n, W))

\* all 4 edges of a 4-node graph have been pushed, one of them with both ends
\* visited by now, and prim_mst has returned
C18_Witness ==
    /\ ret.prim.outcome = "returned"
    /\ n = 4
    /\ Len(prim.pushed) = 4
    /\ Cardinality(prim.visited) = 4
    /\ Len(prim.mst) = 3

\* C19: at every step of prim_mst each accepted edge (u, v, w) had u visited
\* and v not visited when it was accepted; len(mst) = len(visited) - 1, the
\* accepted edges form a tree that contains node 0 and spans exactly the
\* visited set, and total_weight is the sum of the accepted weights.
C19_PrimTreeSpansVisited ==
    /\ [](/\ Len(prim.mst) = Cardinality(prim.visited) - 1
          /\ 0 \in prim.visited
          /\ Cardinality(PairsOf(prim.mst)) = Len(prim.mst)
          /\ Reach(PairsOf(prim.mst), {0}) = prim.visited
          /\ prim.total_weight = SeqWeightSum(prim.mst))
    /\ [][prim'.mst # prim.mst =>
             \E u \in prim.visited, v \in Nodes(n) \ prim.visited :
                 /\ WeightOf(W, u, v) # 0
                 /\ prim'.mst = Append(prim.mst, <<u, v, WeightOf(W, u, v)>>)
                 /\ prim'.visited = prim.visited \cup {v}]_vars

\* an entry whose far end was visited meanwhile has been popped and dropped,
\* and a fourth node accepted after it
C19_Witness ==
    /\ ret.prim.outcome = "returned"
    /\ n = 4
    /\ Cardinality(prim.visited) = 4
    /\ Len(prim.pushed) = 4
    /\ prim.edges = <<>>

\* C20: on a connected graph with n >= 2 nodes karger_min_cut ends, whatever
\* random.choice returns, with exactly two nodes after exactly n-2
\* contractions; each contraction removes exactly one node and appends
\* exactly one edge snapshot, so the trace has n-2 steps (none, and no error,
\* when n = 2).
C20_KargerEndsWithTwoNodes ==
    /\ []((GraphConnected /\ n >= 2) =>
             /\ karger.outcome # "IndexError"
             /\ Cardinality(karger.nodes) = n - Len(karger.contraction_steps)
             /\ Cardinality(karger.nodes) >= 2
             /\ (Cardinality(karger.nodes) > 2 =>
                    karger_edges(karger.nodes, karger.weight) # {})
             /\ (karger.outcome = "returned" =>
                    /\ Cardinality(karger.nodes) = 2
                    /\ Len(karger.contraction_steps) = n - 2))
    /\ [][(GraphConnected /\ n >= 2 /\ karger'.nodes # karger.nodes) =>
             /\ karger'.nodes \subseteq karger.nodes
             /\ Cardinality(karger'.nodes) = Cardinality(karger.nodes) - 1
             /\ Len(karger'.contraction_steps) = Len(karger.contraction_steps) + 1
             /\ karger.outcome = "running"]_vars

\* karger_min_cut has returned from a connected 4-node graph with a cycle
\* after two contractions
C20_Witness ==
    /\ karger.outcome = "returned"
    /\ GraphConnected
    /\ n = 4
    /\ Cardinality(EdgePairs(n, W)) = 4
    /\ Len(karger.contraction_steps) = 2
    /\ Cardinality(karger.nodes) = 2

\* karger_min_cut has returned from a 2-node graph without any contraction
C20_WitnessTwoNodes ==
    /\ karger.outcome = "returned"
    /\ GraphConnected
    /\ n = 2
    /\ karger.contraction_steps = <<>>

====
